---- MODULE Spec2Model ----
(***************************************************************************)
(* MessageScheduler (Vencord plugin, src/index.ts): the time-expression    *)
(* parser, the in-memory list of scheduled messages with their timers, the *)
(* DataStore entry that persists the list, and the start()/stop()          *)
(* lifecycle with recovery of the persisted list.                          *)
(*                                                                         *)
(* Time is epoch milliseconds.  A time text is a sequence of one-character *)
(* strings.  The DataStore is an IndexedDB object store: its requests are  *)
(* served in the order they were issued, so the model keeps one FIFO queue *)
(* of issued get/set requests in front of the durable value.               *)
(***************************************************************************)
EXTENDS Integers, Sequences, FiniteSets, TLC

(***************************************************************************)
(* Program constants.                                                      *)
(***************************************************************************)
SEND_BUFFER_MS == 500

MS_PER_SECOND == 1000

MS_PER_MINUTE == 60 * 1000

MS_PER_HOUR == 60 * 60 * 1000

MS_PER_DAY == 24 * 60 * 60 * 1000

(***************************************************************************)
(* Bounds of the model.                                                    *)
(***************************************************************************)
\* the clock advances one second at a time, at most MaxTicks times
MaxTicks == 2

\* /schedule commands accepted over one behaviour
MaxScheduled == 2

\* setTimeout handles handed out over one behaviour
MaxTimers == 2

\* process exits without stop() over one behaviour
MaxCrashes == 1

\* largest index given to /cancel-scheduled
MaxIndex == 2

\* issued DataStore requests not yet served
MaxQueue == 2

Channels == {"c1", "c2"}


\* the time option of /schedule; <<>> is the missing option
TimeTexts ==
    { <<>>,
      <<"1", "s">>,
      <<"0", "s">>,
      <<"+", "1", "s">>,
      <<"+", "0", "h", "0", "0">>,
      <<"s", "o", "o", "n">> }

\* the option pairs given to /schedule: every time text with a message, and
\* one time text without
ScheduleArgs ==
    {<<"a", timeStr>> : timeStr \in TimeTexts} \cup {<<"", <<"1", "s">> >>}

(***************************************************************************)
(* parseAdvancedTime                                                       *)
(***************************************************************************)
Digits == {"0", "1", "2", "3", "4", "5", "6", "7", "8", "9"}

Units == {"d", "h", "m", "s"}

IsDigit(c) == c \in Digits

DigitVal(c) ==
    CASE c = "0" -> 0 [] c = "1" -> 1 [] c = "2" -> 2 [] c = "3" -> 3
      [] c = "4" -> 4 [] c = "5" -> 5 [] c = "6" -> 6 [] c = "7" -> 7
      [] c = "8" -> 8 [] c = "9" -> 9

\* parseInt(text, 10) of a run of digits
RECURSIVE ParseInt(_)
ParseInt(ds) ==
    IF ds = <<>> THEN 0
    ELSE 10 * ParseInt(SubSeq(ds, 1, Len(ds) - 1)) + DigitVal(ds[Len(ds)])

UnitMs(u) ==
    CASE u = "d" -> MS_PER_DAY
      [] u = "h" -> MS_PER_HOUR
      [] u = "m" -> MS_PER_MINUTE
      [] u = "s" -> MS_PER_SECOND

\* the index after the run of digits that starts at i
RECURSIVE DigitRunEnd(_, _)
DigitRunEnd(str, i) ==
    IF i <= Len(str) /\ IsDigit(str[i]) THEN DigitRunEnd(str, i + 1) ELSE i

\* the matches of /(\d+)([dhms])/g from index i on, as <<value, unit>> pairs
RECURSIVE TokenMatches(_, _)
TokenMatches(str, i) ==
    IF i > Len(str) THEN <<>>
    ELSE IF ~IsDigit(str[i]) THEN TokenMatches(str, i + 1)
    ELSE LET j == DigitRunEnd(str, i)
         IN  IF j <= Len(str) /\ str[j] \in Units
             THEN <<[value |-> ParseInt(SubSeq(str, i, j - 1)), unit |-> str[j]]>>
                    \o TokenMatches(str, j + 1)
             ELSE TokenMatches(str, j)

RECURSIVE TokenSum(_)
TokenSum(ms) ==
    IF ms = <<>> THEN 0
    ELSE Head(ms).value * UnitMs(Head(ms).unit) + TokenSum(Tail(ms))

\* does /(\d{1,2})h/ match at index i, and with how many digits
HourDigitsAt(str, i) ==
    IF i + 2 <= Len(str) /\ IsDigit(str[i]) /\ IsDigit(str[i + 1]) /\ str[i + 2] = "h"
    THEN 2
    ELSE IF i + 1 <= Len(str) /\ IsDigit(str[i]) /\ str[i + 1] = "h"
    THEN 1
    ELSE 0

\* str.match(/(\d{1,2})h(\d{2})?/): the leftmost match, or start = 0 for none
TimeMatch(str) ==
    LET starts == {i \in 1..Len(str) : HourDigitsAt(str, i) > 0}
    IN  IF starts = {} THEN [start |-> 0, end |-> 0, hours |-> 0, minutes |-> 0]
        ELSE LET i == CHOOSE k \in starts : \A l \in starts : k <= l
                 n == HourDigitsAt(str, i)
                 h == i + n
                 hasMin == h + 2 <= Len(str) /\ IsDigit(str[h + 1]) /\ IsDigit(str[h + 2])
             IN  [start |-> i,
                  end |-> IF hasMin THEN h + 2 ELSE h,
                  hours |-> ParseInt(SubSeq(str, i, h - 1)),
                  minutes |-> IF hasMin THEN ParseInt(SubSeq(str, h + 1, h + 2)) ELSE 0]

\* the '+' branch: the optional <hours>h<minutes> then every token of the rest
PlusDelay(str) ==
    LET tm == TimeMatch(str)
        rest == IF tm.start = 0 THEN str
                ELSE SubSeq(str, 1, tm.start - 1) \o SubSeq(str, tm.end + 1, Len(str))
        lead == IF tm.start = 0 THEN 0
                ELSE tm.hours * MS_PER_HOUR + tm.minutes * MS_PER_MINUTE
    IN  lead + TokenSum(TokenMatches(rest, 1))

\* /^(\d{1,2})h(\d{2})$/
IsTimeOfDay(str) ==
    \/ /\ Len(str) = 4
       /\ IsDigit(str[1]) /\ str[2] = "h" /\ IsDigit(str[3]) /\ IsDigit(str[4])
    \/ /\ Len(str) = 5
       /\ IsDigit(str[1]) /\ IsDigit(str[2]) /\ str[3] = "h"
       /\ IsDigit(str[4]) /\ IsDigit(str[5])

\* as TimeOfDayDelay, rolled by a day only when it is before now
TimeOfDayDelayIsBefore(str, t) ==
    LET hl == Len(str) - 3
        hours == ParseInt(SubSeq(str, 1, hl))
        minutes == ParseInt(SubSeq(str, hl + 2, hl + 3))
        next == (t - (t % MS_PER_DAY)) + hours * MS_PER_HOUR + minutes * MS_PER_MINUTE
    IN  IF next < t THEN next + MS_PER_DAY - t ELSE next - t

\* moment().set({hour, minute, second: 0, millisecond: 0}), rolled by a day
\* when it is the same as or before now; the clock is read as UTC
TimeOfDayDelay(str, t) ==
    LET hl == Len(str) - 3
        hours == ParseInt(SubSeq(str, 1, hl))
        minutes == ParseInt(SubSeq(str, hl + 2, hl + 3))
        next == (t - (t % MS_PER_DAY)) + hours * MS_PER_HOUR + minutes * MS_PER_MINUTE
    IN  IF next <= t THEN next + MS_PER_DAY - t ELSE next - t

NoDelay == -1

\* as parseAdvancedTime, the fallback stopping at its first token
parseAdvancedTimeFirstToken(timeStr, t) ==
    IF timeStr # <<>> /\ Head(timeStr) = "+"
    THEN LET d == PlusDelay(Tail(timeStr)) IN IF d > 0 THEN d ELSE NoDelay
    ELSE IF IsTimeOfDay(timeStr) THEN TimeOfDayDelay(timeStr, t)
    ELSE LET ms == TokenMatches(timeStr, 1)
         IN  IF ms # <<>> THEN TokenSum(<<Head(ms)>>) ELSE NoDelay

\* the delay in ms, or NoDelay for null
parseAdvancedTime(timeStr, t) ==
    IF timeStr # <<>> /\ Head(timeStr) = "+"
    THEN LET d == PlusDelay(Tail(timeStr)) IN IF d > 0 THEN d ELSE NoDelay
    ELSE IF IsTimeOfDay(timeStr) THEN TimeOfDayDelay(timeStr, t)
    ELSE LET ms == TokenMatches(timeStr, 1)
         IN  IF ms # <<>> THEN TokenSum(ms) ELSE NoDelay


(***************************************************************************)
(* State.                                                                  *)
(*                                                                         *)
(* A record of scheduledMessages is                                        *)
(*   [channelId, content, scheduledTime, timeoutId, rid, orig];            *)
(* a live timer is [tid, due, channelId, content, rid]; a persisted record *)
(* is [channelId, content, scheduledTime, rid, orig].  The fields rid and  *)
(* orig are not program state: rid names the message a /schedule command   *)
(* created and orig is the scheduledTime computed then; both follow the    *)
(* record through the store and through recovery, so that properties can   *)
(* speak of "the same record" and of "its fire time at creation".          *)
(***************************************************************************)
VARIABLES
    now,                \* Date.now()
    scheduledMessages,  \* the in-memory list
    timers,             \* live setTimeout timers of this process
    nextTimeoutId,      \* the handle the next setTimeout returns
    store,              \* the durable value under SCHEDULED_MESSAGES_KEY
    queue,              \* DataStore requests issued and not yet served
    pc,                 \* start(): "idle", or "loading" while it awaits the get
    started,            \* the plugin is enabled: its commands are registered
    sent,               \* rid -> the number of sendMessage calls for it so far
    cancelled,          \* history: the records /cancel-scheduled removed in this
                        \* process
    crashes,            \* history: process exits without stop()
    rec,                \* history: the last run of start()
    arg,                \* the argument of a function run on its own
    ret                 \* what that function returned, NotCalled before

vars == <<now, scheduledMessages, timers, nextTimeoutId, store, queue, pc, started, sent, cancelled, crashes, rec, arg, ret>>

MaxTime == MaxTicks * MS_PER_SECOND

NoOverride == -1

NoRec == [phase |-> "none"]

NotCalled == [called |-> FALSE]

NoArg == [kind |-> "none"]

(***************************************************************************)
(* Helpers on sequences.                                                   *)
(***************************************************************************)
\* Array.prototype.findIndex, 1-based; 0 for -1
FindIndex(seq, Test(_)) ==
    LET hits == {i \in 1..Len(seq) : Test(seq[i])}
    IN  IF hits = {} THEN 0 ELSE CHOOSE i \in hits : \A j \in hits : i <= j

\* Array.prototype.splice(index, 1)
Splice(seq, i) == SubSeq(seq, 1, i - 1) \o SubSeq(seq, i + 1, Len(seq))

\* scheduledMessages.filter(msg => msg.channelId === ctx.channel.id)
ChannelMessages(msgs, ch) == SelectSeq(msgs, LAMBDA m : m.channelId = ch)

\* the { channelId, content, scheduledTime } of every record
ToSave(msgs) ==
    [i \in 1..Len(msgs) |->
        [channelId |-> msgs[i].channelId, content |-> msgs[i].content,
         scheduledTime |-> msgs[i].scheduledTime, rid |-> msgs[i].rid,
         orig |-> msgs[i].orig]]

\* void DataStore.set(SCHEDULED_MESSAGES_KEY, toSave): the request is issued
saveScheduledMessages(msgs, q) == Append(q, [op |-> "set", value |-> ToSave(msgs)])

\* clearTimeout(timeoutId) on the live timers ts
clearTimeout(ts, timeoutId) == {t \in ts : t.tid # timeoutId}

\* the instant the host runs a callback armed at t with setTimeout(cb, delay)
TimeoutDue(t, delay) == t + delay

\* scheduledTime as scheduleMessage computes it
ScheduledTime(t, delay, scheduledTimeOverride) ==
    (IF scheduledTimeOverride # NoOverride THEN scheduledTimeOverride ELSE t + delay)
        + SEND_BUFFER_MS

(***************************************************************************)
(* scheduleMessage on an engine state e = [msgs, timers, queue, tid]:      *)
(* arm the timer, push the record, issue the save.                         *)
(***************************************************************************)
scheduleMessage(e, t, channelId, content, delay, scheduledTimeOverride, rid, orig) ==
    LET scheduledTime == ScheduledTime(t, delay, scheduledTimeOverride)
        timer == [tid |-> e.tid, due |-> TimeoutDue(t, delay + SEND_BUFFER_MS),
                  channelId |-> channelId, content |-> content, rid |-> rid]
        msgs == Append(e.msgs,
                       [channelId |-> channelId, content |-> content,
                        scheduledTime |-> scheduledTime, timeoutId |-> e.tid,
                        rid |-> rid, orig |-> orig])
    IN  [e EXCEPT !.msgs = msgs,
                  !.timers = e.timers \cup {timer},
                  !.queue = saveScheduledMessages(msgs, e.queue),
                  !.tid = e.tid + 1]

Engine == [msgs |-> scheduledMessages, timers |-> timers, queue |-> queue,
           tid |-> nextTimeoutId, sent |-> sent, changed |-> FALSE]

\* an engine operation other than start() ran: a start() in flight is no
\* longer alone, a finished one is no longer the last operation
Disturbed ==
    IF rec.phase = "loading" THEN [phase |-> "loading", quiet |-> FALSE, prev |-> NoRec]
    ELSE NoRec


\* the value the store holds once every request issued so far is served
RECURSIVE LastSet(_, _)
LastSet(q, dflt) ==
    IF q = <<>> THEN dflt
    ELSE IF q[Len(q)].op = "set" THEN q[Len(q)].value
    ELSE LastSet(SubSeq(q, 1, Len(q) - 1), dflt)

Persisted == LastSet(queue, store)

\* nothing scheduled, nothing stored, the plugin not started
Idle ==
    /\ scheduledMessages = <<>>
    /\ timers = {}
    /\ nextTimeoutId = 1
    /\ store = <<>>
    /\ queue = <<>>
    /\ pc = "idle"
    /\ started = FALSE
    /\ sent = <<>>
    /\ cancelled = {}
    /\ crashes = 0
    /\ rec = NoRec

Init ==
    /\ now = 0
    /\ Idle
    /\ arg = NoArg
    /\ ret = NotCalled

(***************************************************************************)
(* The host: the clock, the DataStore serving its requests in issue order. *)
(***************************************************************************)
\* The clock moves on by one second.  A DataStore request takes far less
\* than that: the requests in flight are served before the clock moves.
Tick ==
    /\ now + MS_PER_SECOND <= MaxTime
    /\ queue = <<>>
    /\ now' = now + MS_PER_SECOND
    /\ rec' = IF rec.phase = "done" THEN NoRec ELSE rec
    /\ UNCHANGED <<scheduledMessages, timers, nextTimeoutId, store, queue, pc, started, sent, cancelled, crashes>>
    /\ UNCHANGED <<arg, ret>>

\* the DataStore serves a set request: the value is written
StoreWrite ==
    /\ queue # <<>>
    /\ Head(queue).op = "set"
    /\ queue' = Tail(queue)
    /\ store' = Head(queue).value
    /\ UNCHANGED <<now, scheduledMessages, timers, nextTimeoutId, pc, started, sent,
                   cancelled, crashes, rec>>
    /\ UNCHANGED <<arg, ret>>

(***************************************************************************)
(* /schedule                                                               *)
(***************************************************************************)
\* the checks of /schedule with delay < 0 in place of delay <= 0
ScheduleReplyZeroDelay(message, timeStr, delay) ==
    IF message = "" \/ timeStr = <<>> THEN "missing_option"
    ELSE IF delay = NoDelay \/ delay < 0 THEN "invalid_time"
    ELSE "scheduled"

\* the checks of execute of /schedule; delay is what parseAdvancedTime(time)
\* returned
ScheduleReply(message, timeStr, delay) ==
    IF message = "" \/ timeStr = <<>> THEN "missing_option"
    ELSE IF delay = NoDelay \/ delay <= 0 THEN "invalid_time"
    ELSE "scheduled"

\* execute of /schedule on an engine state e, from const delay =
\* parseAdvancedTime(time) on; rid names the record it creates
scheduleExecute(e, t, ch, message, timeStr, delay, rid) ==
    IF ScheduleReply(message, timeStr, delay) # "scheduled" THEN e
    ELSE scheduleMessage(e, t, ch, message, delay, NoOverride, rid,
                         ScheduledTime(t, delay, NoOverride))

\* a /schedule command that passes the checks, while the model has a record,
\* a timer handle and a DataStore request left for it; a rejected one returns
\* before it changes anything
ScheduleCmd(ch, message, timeStr) ==
    /\ started
    /\ Len(sent) < MaxScheduled
    /\ nextTimeoutId <= MaxTimers
    /\ Len(queue) < MaxQueue
    /\ \E delay \in {parseAdvancedTime(timeStr, now)} :
          LET e == scheduleExecute(Engine, now, ch, message, timeStr, delay,
                                   Len(sent) + 1)
          IN  /\ e # Engine
              /\ scheduledMessages' = e.msgs
              /\ timers' = e.timers
              /\ queue' = e.queue
              /\ nextTimeoutId' = e.tid
    /\ sent' = Append(sent, 0)
    /\ rec' = Disturbed
    /\ UNCHANGED <<now, store, pc, started, cancelled, crashes>>
    /\ UNCHANGED <<arg, ret>>

(***************************************************************************)
(* The timer callback of scheduleMessage.                                  *)
(***************************************************************************)
TimerFire(t) ==
    /\ t \in timers
    /\ now >= t.due
    /\ LET index == FindIndex(scheduledMessages, LAMBDA m : m.timeoutId = t.tid)
       IN  /\ sent' = [sent EXCEPT ![t.rid] = @ + 1]
           /\ timers' = timers \ {t}
           /\ IF index # 0
              THEN /\ Len(queue) < MaxQueue
                   /\ scheduledMessages' = Splice(scheduledMessages, index)
                   /\ queue' = saveScheduledMessages(scheduledMessages', queue)
              ELSE UNCHANGED <<scheduledMessages, queue>>
    /\ rec' = Disturbed
    /\ UNCHANGED <<now, nextTimeoutId, store, pc, started, cancelled,
                   crashes>>
    /\ UNCHANGED <<arg, ret>>

(***************************************************************************)
(* /cancel-scheduled                                                       *)
(***************************************************************************)
CancelReply(msgs, ch, index) ==
    IF index <= 0 THEN "invalid_index"
    ELSE IF Len(ChannelMessages(msgs, ch)) = 0 THEN "no_messages"
    ELSE IF index > Len(ChannelMessages(msgs, ch)) THEN "index_too_large"
    ELSE "cancelled"

\* the record looked up by its value instead of its timeoutId
CancelTargetByValue(msgs, messageToCancel) ==
    FindIndex(msgs, LAMBDA m : /\ m.channelId = messageToCancel.channelId
                               /\ m.content = messageToCancel.content
                               /\ m.scheduledTime = messageToCancel.scheduledTime)

\* the global index of the record the command removes
CancelTarget(msgs, messageToCancel) ==
    FindIndex(msgs, LAMBDA m : m.timeoutId = messageToCancel.timeoutId)

\* execute of /cancel-scheduled on an engine state e
cancelExecute(e, ch, index) ==
    IF CancelReply(e.msgs, ch, index) # "cancelled" THEN e
    ELSE LET messageToCancel == ChannelMessages(e.msgs, ch)[index]
             globalIndex == CancelTarget(e.msgs, messageToCancel)
             e1 == [e EXCEPT !.timers = clearTimeout(e.timers, messageToCancel.timeoutId)]
         IN  IF globalIndex # 0
             THEN LET msgs == Splice(e.msgs, globalIndex)
                  IN  [e1 EXCEPT !.msgs = msgs,
                                 !.queue = saveScheduledMessages(msgs, e.queue)]
             ELSE e1

\* a /cancel-scheduled command that passes the checks; a rejected one
\* returns before it changes anything
CancelCmd(ch, index) ==
    /\ started
    /\ CancelReply(scheduledMessages, ch, index) = "cancelled"
    /\ Len(queue) < MaxQueue
    /\ LET e == cancelExecute(Engine, ch, index)
           messageToCancel == ChannelMessages(scheduledMessages, ch)[index]
       IN  /\ scheduledMessages' = e.msgs
           /\ timers' = e.timers
           /\ queue' = e.queue
           /\ cancelled' = cancelled \cup
                              {[rid |-> messageToCancel.rid,
                                timeoutId |-> messageToCancel.timeoutId,
                                channelId |-> messageToCancel.channelId,
                                content |-> messageToCancel.content,
                                orig |-> messageToCancel.orig]}
    /\ rec' = Disturbed
    /\ UNCHANGED <<now, nextTimeoutId, store, pc, started, sent, crashes>>
    /\ UNCHANGED <<arg, ret>>

(***************************************************************************)
(* start()                                                                 *)
(***************************************************************************)
\* the for loop of start() without changed = true on a past-due record
RECURSIVE RecoverUnchanged(_, _, _)
RecoverUnchanged(e, msgs, t) ==
    IF msgs = <<>> THEN e
    ELSE LET msg == Head(msgs)
             delay == msg.scheduledTime - t
         IN  IF delay > 0
             THEN RecoverUnchanged(scheduleMessage(e, t, msg.channelId, msg.content,
                                                   delay, msg.scheduledTime, msg.rid,
                                                   msg.orig),
                                   Tail(msgs), t)
             ELSE RecoverUnchanged([e EXCEPT !.sent[msg.rid] = @ + 1], Tail(msgs), t)

\* the for loop of start() over the loaded records, on an engine state e
RECURSIVE Recover(_, _, _)
Recover(e, msgs, t) ==
    IF msgs = <<>> THEN e
    ELSE LET msg == Head(msgs)
             delay == msg.scheduledTime - t
         IN  IF delay > 0
             THEN Recover(scheduleMessage(e, t, msg.channelId, msg.content, delay,
                                          msg.scheduledTime, msg.rid, msg.orig),
                          Tail(msgs), t)
             ELSE Recover([e EXCEPT !.sent[msg.rid] = @ + 1, !.changed = TRUE],
                          Tail(msgs), t)

\* start() up to its await: the get is issued; the host then marks the plugin
\* started and registers its commands
StartCall ==
    /\ pc = "idle"
    /\ Len(queue) < MaxQueue
    /\ queue' = Append(queue, [op |-> "get"])
    /\ pc' = "loading"
    /\ started' = TRUE
    /\ rec' = [phase |-> "loading", quiet |-> TRUE,
               prev |-> IF rec.phase = "done" /\ rec.quiet
                        THEN [msgs |-> scheduledMessages, timers |-> timers,
                              persisted |-> Persisted, sent |-> sent, at |-> now]
                        ELSE NoRec]
    /\ UNCHANGED <<now, scheduledMessages, timers, nextTimeoutId, store, sent, cancelled, crashes>>
    /\ UNCHANGED <<arg, ret>>

\* the host enables the plugin
StartBegin ==
    /\ ~started
    /\ StartCall

\* start() run again on a started plugin
StartAgain ==
    /\ started
    /\ StartCall

\* loadScheduledMessages: the DataStore serves the get, which resolves to
\* data ?? []
loadScheduledMessages == store

\* start() after its await: the get at the head of the queue is served and the
\* continuation of start() runs in the same turn of the event loop
StartResume ==
    /\ pc = "loading"
    /\ queue # <<>>
    /\ Head(queue).op = "get"
    /\ LET loaded == loadScheduledMessages
           e0 == [Engine EXCEPT !.msgs = <<>>, !.queue = Tail(queue)]
           e1 == Recover(e0, loaded, now)
           e2 == IF e1.changed
                 THEN [e1 EXCEPT !.queue = saveScheduledMessages(e1.msgs, e1.queue)]
                 ELSE e1
       IN  /\ e2.tid <= MaxTimers + 2
           /\ scheduledMessages' = e2.msgs
           /\ timers' = e2.timers
           /\ queue' = e2.queue
           /\ nextTimeoutId' = e2.tid
           /\ sent' = e2.sent
           /\ rec' = [phase |-> "done", quiet |-> rec.quiet, prev |-> rec.prev,
                      loaded |-> loaded, at |-> now, sent |-> sent,
                      tid |-> nextTimeoutId]
    /\ pc' = "idle"
    /\ UNCHANGED <<now, store, started, cancelled, crashes>>
    /\ UNCHANGED <<arg, ret>>

(***************************************************************************)
(* stop()                                                                  *)
(***************************************************************************)
\* the for loop of stop(): clearTimeout for every record of the list
RECURSIVE ClearAll(_, _)
ClearAll(ts, msgs) ==
    IF msgs = <<>> THEN ts
    ELSE ClearAll(clearTimeout(ts, Head(msgs).timeoutId), Tail(msgs))

Stop ==
    /\ started
    /\ Len(queue) < MaxQueue
    /\ timers' = ClearAll(timers, scheduledMessages)
    /\ scheduledMessages' = <<>>
    /\ queue' = saveScheduledMessages(scheduledMessages', queue)
    /\ started' = FALSE
    /\ rec' = Disturbed
    /\ UNCHANGED <<now, nextTimeoutId, store, pc, sent, cancelled, crashes>>
    /\ UNCHANGED <<arg, ret>>

(***************************************************************************)
(* The process exits without stop() (Discord is closed or reloaded): the   *)
(* module state and the timers are gone, requests not yet served are lost, *)
(* the durable value stays.                                                *)
(***************************************************************************)
Crash ==
    /\ crashes < MaxCrashes
    /\ crashes' = crashes + 1
    /\ scheduledMessages' = <<>>
    /\ timers' = {}
    /\ queue' = <<>>
    /\ pc' = "idle"
    /\ started' = FALSE
    /\ cancelled' = {}
    /\ rec' = NoRec
    /\ UNCHANGED <<now, nextTimeoutId, store, sent>>
    /\ UNCHANGED <<arg, ret>>

\* The channels are interchangeable: the first /schedule of a behaviour is
\* taken to be typed in "c1".
ScheduleChannels == IF sent = <<>> THEN {"c1"} ELSE Channels

Next ==
    \/ Tick
    \/ StoreWrite
    \/ \E ch \in ScheduleChannels, args \in ScheduleArgs :
          ScheduleCmd(ch, args[1], args[2])
    \/ \E t \in timers : TimerFire(t)
    \/ \E ch \in Channels, index \in 0..MaxIndex : CancelCmd(ch, index)
    \/ StartBegin
    \/ StartResume
    \/ Stop
    \/ Crash

Spec == Init /\ [][Next]_vars

\* the same program when start() may also run on a plugin that is started
NextReentrant == Next \/ StartAgain

SpecReentrant == Init /\ [][NextReentrant]_vars


(***************************************************************************)
(* Properties.                                                             *)
(***************************************************************************)
Rids(msgs) == {msgs[i].rid : i \in 1..Len(msgs)}

\* how many records of msgs carry rid
Occurrences(msgs, rid) == Cardinality({i \in 1..Len(msgs) : msgs[i].rid = rid})

\* the records of the loaded list that recovery finds past due, and the others
PastDue(msgs, t) == SelectSeq(msgs, LAMBDA m : m.scheduledTime <= t)

Future(msgs, t) == SelectSeq(msgs, LAMBDA m : m.scheduledTime > t)

\* a run of start() has just finished and no command, timer callback or
\* stop() ran while it awaited the load
RecoveredAlone == rec.phase = "done" /\ rec.quiet

\* C1: recovery of a persisted list, run without another operation in between:
\* every record with scheduledTime <= now is sent exactly once by it and is
\* given no timer, every record with scheduledTime > now is not sent by it and
\* is given exactly one timer, which is live and is the one its in-memory
\* record holds; the in-memory list holds the future records in their stored
\* order, and once the issued writes are applied the persisted list holds
\* exactly those re-armed records and none of the past-due ones.
C1_Recovery ==
    RecoveredAlone =>
        LET past == PastDue(rec.loaded, rec.at)
            future == Future(rec.loaded, rec.at)
            armed == {t \in timers : t.tid >= rec.tid}
        IN  /\ \A rid \in DOMAIN sent :
                  sent[rid] = rec.sent[rid] + Occurrences(past, rid)
            /\ \A i \in 1..Len(past) :
                  /\ {t \in armed : t.rid = past[i].rid} = {}
                  /\ past[i].rid \notin Rids(Persisted)
            /\ Cardinality(armed) = Len(future)
            /\ Len(scheduledMessages) = Len(future)
            /\ \A i \in 1..Len(future) :
                  /\ scheduledMessages[i].rid = future[i].rid
                  /\ scheduledMessages[i].channelId = future[i].channelId
                  /\ scheduledMessages[i].content = future[i].content
                  /\ Cardinality({t \in armed : t.rid = future[i].rid}) = 1
                  /\ \E t \in armed : /\ t.tid = scheduledMessages[i].timeoutId
                                       /\ t.rid = future[i].rid
                                       /\ t.channelId = future[i].channelId
                                       /\ t.content = future[i].content
            /\ Persisted = ToSave(scheduledMessages)

\* a recovery that found a past-due and a future record, its writes applied
C1_Witness ==
    /\ RecoveredAlone
    /\ queue = <<>>
    /\ PastDue(rec.loaded, rec.at) # <<>>
    /\ Future(rec.loaded, rec.at) # <<>>
    /\ store # <<>>

\* C2: start() run twice in a row at the same clock value with nothing in
\* between: the second run sends nothing and leaves the live timers, the
\* in-memory list and the persisted list as the first run left them.
C2_RecoveryIdempotent ==
    (RecoveredAlone /\ rec.prev # NoRec) =>
        /\ sent = rec.prev.sent
        /\ timers = rec.prev.timers
        /\ scheduledMessages = rec.prev.msgs
        /\ Persisted = rec.prev.persisted

\* C3: every record of the list has at most one live timer, and every live
\* timer belongs to a record of the list.
C3_NoOrphanTimer ==
    /\ \A i \in 1..Len(scheduledMessages) :
          Cardinality({t \in timers : t.rid = scheduledMessages[i].rid}) <= 1
    /\ \A t \in timers :
          \E i \in 1..Len(scheduledMessages) : scheduledMessages[i].timeoutId = t.tid

\* C4: with the plugin started, no start() in flight and every issued write
\* applied, the persisted list is the in-memory list projected to
\* {channelId, content, scheduledTime}, in the same order.
C4_StoreMatchesMemory ==
    (started /\ pc = "idle" /\ queue = <<>>) => store = ToSave(scheduledMessages)

\* C5: the scheduledTime of a record, in memory and in the store, is the one
\* computed when it was first scheduled, and its timer is due at that instant.
C5_FireTimeFixed ==
    /\ \A i \in 1..Len(scheduledMessages) :
          /\ scheduledMessages[i].scheduledTime = scheduledMessages[i].orig
          /\ \A t \in timers :
                t.tid = scheduledMessages[i].timeoutId => t.due = scheduledMessages[i].orig
    /\ \A i \in 1..Len(store) : store[i].scheduledTime = store[i].orig

(***************************************************************************)
(* /cancel-scheduled and rejected commands.                                *)
(***************************************************************************)
\* the live timer whose handle the record m holds
TimerOf(ts, m) == {t \in ts : t.tid = m.timeoutId}

C7_CancelOrSend ==
    /\ \A c \in cancelled :
          /\ sent[c.rid] = 0
          /\ {t \in timers : t.rid = c.rid} = {}
          /\ c.rid \notin Rids(scheduledMessages)
    /\ \A i \in 1..Len(scheduledMessages) : sent[scheduledMessages[i].rid] = 0

\* the commands the engine must reject in the current state
BadIndex(ch, k) == k < 1 \/ k > Len(ChannelMessages(scheduledMessages, ch))

\* C8: /cancel-scheduled with an index outside [1, number of records of the
\* channel] and /schedule with a time text that does not parse or parses to a
\* delay <= 0 reply with an error and leave the list, the timers, the requests
\* to the store and the messages sent as they are.
C8_RejectedChangesNothing ==
    started =>
        /\ \A ch \in Channels : \A k \in 0..MaxIndex :
              BadIndex(ch, k) =>
                  /\ CancelReply(scheduledMessages, ch, k)
                        \in {"invalid_index", "no_messages", "index_too_large"}
                  /\ cancelExecute(Engine, ch, k) = Engine
        /\ \A a \in ScheduleArgs : \A delay \in {parseAdvancedTime(a[2], now)} :
              (a[2] # <<>> /\ (delay = NoDelay \/ delay <= 0)) =>
                  /\ ScheduleReply(a[1], a[2], delay) \in {"invalid_time", "missing_option"}
                  /\ \A ch \in Channels :
                        scheduleExecute(Engine, now, ch, a[1], a[2], delay,
                                        Len(sent) + 1) = Engine

\* with records listed, timers armed and a list persisted, every kind of
\* rejection applies
C8_Witness ==
    /\ started
    /\ scheduledMessages # <<>>
    /\ timers # {}
    /\ store # <<>>
    /\ \E ch \in Channels : CancelReply(scheduledMessages, ch, MaxIndex) = "index_too_large"
    /\ \E ch \in Channels : CancelReply(scheduledMessages, ch, 1) = "no_messages"
    /\ \E a \in ScheduleArgs : parseAdvancedTime(a[2], now) = NoDelay
    /\ \E a \in ScheduleArgs : parseAdvancedTime(a[2], now) = 0

(***************************************************************************)
(* stop() and the life of a record.                                        *)
(***************************************************************************)
\* C9: a step of stop() leaves no live timer, an empty in-memory list and an
\* empty persisted list.
C9_StopLeavesNothing ==
    [][(started /\ ~started' /\ crashes' = crashes) =>
          /\ timers' = {}
          /\ scheduledMessages' = <<>>
          /\ Persisted' = <<>>]_vars

\* C10: within one process run no record is sent twice, a record that was sent
\* is listed neither in memory nor in the persisted list, and a cancelled
\* record is never sent.
C10_PendingFiredCancelled ==
    crashes = 0 =>
        /\ \A rid \in DOMAIN sent :
              /\ sent[rid] <= 1
              /\ sent[rid] = 1 =>
                    (rid \notin Rids(scheduledMessages) /\ rid \notin Rids(Persisted))
        /\ \A c \in cancelled : sent[c.rid] = 0

\* C18: a record that /schedule created while start() awaited the load is
\* not lost when start() completes: it is listed once, persisted once and
\* has exactly one live timer
C18_ScheduledDuringStartKept ==
    [][(pc = "loading" /\ pc' = "idle" /\ started /\ crashes' = crashes) =>
          \A rid \in Rids(scheduledMessages) :
              /\ Occurrences(scheduledMessages', rid) = 1
              /\ Occurrences(Persisted', rid) = 1
              /\ Cardinality({t \in timers' : t.rid = rid}) = 1]_vars

\* C19: when stop() ran while start() awaited the load, the completion of
\* start() leaves no timer live and the list and the persisted list empty,
\* and sends none of the loaded messages
C19_StopDuringStartHolds ==
    [][(pc = "loading" /\ pc' = "idle" /\ ~started /\ crashes' = crashes) =>
          /\ timers' = {}
          /\ scheduledMessages' = <<>>
          /\ Persisted' = <<>>
          /\ sent' = sent]_vars

\* C20: over every sequence of schedule, timer fire, crash and restart each
\* scheduled message is sent at most once
C20_SentAtMostOnce == \A rid \in DOMAIN sent : sent[rid] <= 1

(***************************************************************************)
(* parseAdvancedTime run on its own: a time text and a clock reading are   *)
(* drawn, then the parser is called once.  arg.timeStr is the text; the    *)
(* other fields of arg say how the text was built and are not seen by the  *)
(* parser.                                                                 *)
(***************************************************************************)
DigitChar(n) ==
    CASE n = 0 -> "0" [] n = 1 -> "1" [] n = 2 -> "2" [] n = 3 -> "3"
      [] n = 4 -> "4" [] n = 5 -> "5" [] n = 6 -> "6" [] n = 7 -> "7"
      [] n = 8 -> "8" [] n = 9 -> "9"

TwoDigits(n) == <<DigitChar(n \div 10), DigitChar(n % 10)>>

\* the ways to write an hour that /\d{1,2}/ takes
HourTexts(n) == IF n < 10 THEN {<<DigitChar(n)>>, TwoDigits(n)} ELSE {TwoDigits(n)}

\* every text of /^(\d{1,2})h(\d{2})$/
TimeOfDayArgs ==
    UNION {{[kind |-> "timeOfDay", timeStr |-> ht \o <<"h">> \o TwoDigits(m),
             hours |-> h, minutes |-> m] : ht \in HourTexts(h)}
           : h \in 0..99, m \in 0..99}

\* the decimal text of n
RECURSIVE NumText(_)
NumText(n) == IF n < 10 THEN <<DigitChar(n)>> ELSE NumText(n \div 10) \o <<DigitChar(n % 10)>>

TokenText(tok) == NumText(tok.value) \o <<tok.unit>>

\* the tokens written one after the other, each after the text sep
RECURSIVE JoinTokens(_, _)
JoinTokens(toks, sep) ==
    IF toks = <<>> THEN <<>>
    ELSE sep \o TokenText(Head(toks)) \o JoinTokens(Tail(toks), sep)

\* the weighted sum a sequence of tokens stands for
RECURSIVE TokensMs(_)
TokensMs(toks) ==
    IF toks = <<>> THEN 0
    ELSE Head(toks).value * UnitMs(Head(toks).unit) + TokensMs(Tail(toks))

MaxPlusHours == 120

NoLead == [hours |-> 0, minutes |-> 0, text |-> <<>>]

\* <hours>h<minutes> at the head of a '+' text
PlusLeads ==
    {NoLead,
     [hours |-> 17, minutes |-> 0, text |-> <<"+", "1", "7", "h", "0", "0">>],
     [hours |-> 1, minutes |-> 30, text |-> <<"+", "1", "h", "3", "0">>]}

PlusTokens ==
    {[value |-> 3, unit |-> "d"], [value |-> 1, unit |-> "h"],
     [value |-> 100, unit |-> "h"], [value |-> 90, unit |-> "m"],
     [value |-> 0, unit |-> "s"]}

PlusTokenSeqs ==
    {<<>>} \cup {<<a>> : a \in PlusTokens} \cup {<<a, b>> : a, b \in PlusTokens}

\* '+' texts: an optional <hours>h<minutes>, then tokens, each after a '+';
\* and +<n>h for every n up to MaxPlusHours
PlusArgs ==
    {[kind |-> "plus", lead |-> l, tokens |-> toks,
      timeStr |-> IF l = NoLead /\ toks = <<>> THEN <<"+">>
                  ELSE l.text \o JoinTokens(toks, <<"+">>)]
        : l \in PlusLeads, toks \in PlusTokenSeqs}
    \cup
    {[kind |-> "plus", lead |-> NoLead, tokens |-> <<[value |-> n, unit |-> "h"]>>,
      timeStr |-> <<"+">> \o NumText(n) \o <<"h">>] : n \in 1..MaxPlusHours}

MaxTokens == 2

RelativeTokens ==
    {[value |-> v, unit |-> u] : v \in {0, 1, 7}, u \in Units}
    \cup {[value |-> 90, unit |-> "m"], [value |-> 120, unit |-> "s"],
          [value |-> 36, unit |-> "h"]}

\* the sequences of 1..n tokens
RECURSIVE RelativeTokenSeqs(_)
RelativeTokenSeqs(n) ==
    IF n = 0 THEN {}
    ELSE {<<a>> : a \in RelativeTokens}
         \cup {<<a>> \o toks : a \in RelativeTokens, toks \in RelativeTokenSeqs(n - 1)}

\* texts without '+' made of tokens, written together or one space apart
RelativeArgs ==
    {[kind |-> "relative", tokens |-> toks,
      timeStr |-> TokenText(Head(toks)) \o JoinTokens(Tail(toks), sep)]
        : toks \in RelativeTokenSeqs(MaxTokens), sep \in {<<>>, <<" ">>}}

\* texts in which /(\d+)([dhms])/ finds nothing
NoTokenArgs ==
    {[kind |-> "noToken", timeStr |-> str]
        : str \in {<<>>, <<"s", "o", "o", "n">>, <<"1", "2">>, <<"h">>, <<"5", "x">>,
                   <<"1", " ", "h">>, <<"h", "1">>}}

\* HhMM followed by +<n>d, without a leading '+'
DayOffsetArgs ==
    {[kind |-> "dayOffset", hours |-> hm[1], minutes |-> hm[2], days |-> d,
      timeStr |-> NumText(hm[1]) \o <<"h">> \o TwoDigits(hm[2]) \o <<"+">>
                    \o NumText(d) \o <<"d">>]
        : hm \in {<<17, 0>>, <<12, 0>>, <<1, 30>>}, d \in 1..3}

\* the clock-time notations of parseExactTime's formats h:mma and H:mm
ExactTimeArgs ==
    {[kind |-> "exact", hours |-> 15, minutes |-> 30,
      timeStr |-> <<"3", ":", "3", "0", "p", "m">>],
     [kind |-> "exact", hours |-> 15, minutes |-> 45,
      timeStr |-> <<"1", "5", ":", "4", "5">>]}

\* clock readings: midnight, just after it, inside a second, 17:00:00.000,
\* the last millisecond of a day, and an instant of the next day
ParseClocks ==
    {0, 1,
     12 * MS_PER_HOUR + 34 * MS_PER_MINUTE + 56 * MS_PER_SECOND + 789,
     17 * MS_PER_HOUR,
     MS_PER_DAY - 1,
     MS_PER_DAY + 17 * MS_PER_HOUR + 1}

ParseArgs ==
    TimeOfDayArgs \cup PlusArgs \cup RelativeArgs \cup NoTokenArgs \cup DayOffsetArgs
        \cup ExactTimeArgs

InitParser ==
    /\ Idle
    /\ now \in ParseClocks
    /\ arg \in ParseArgs
    /\ ret = NotCalled

\* const delay = parseAdvancedTime(timeStr)
ParseCall ==
    /\ arg.kind # "none"
    /\ ret = NotCalled
    /\ ret' = [called |-> TRUE, delay |-> parseAdvancedTime(arg.timeStr, now)]
    /\ UNCHANGED <<now, scheduledMessages, timers, nextTimeoutId, store, queue, pc,
                   started, sent, cancelled, crashes, rec, arg>>

NextParser == ParseCall

SpecParser == InitParser /\ [][NextParser]_vars

\* the text is HhMM with the hour in 0..23 and the minute in 0..59
ValidTimeOfDay ==
    arg.kind = "timeOfDay" /\ arg.hours <= 23 /\ arg.minutes <= 59

\* C11: for a time of day HhMM with the hour in 0..23 and the minute in
\* 0..59 and for every clock reading, the delay is greater than zero and at
\* most 24 hours, and now + delay is the first instant after now whose wall
\* clock reads H:MM:00.000
C11_TimeOfDayNext ==
    (ValidTimeOfDay /\ ret.called) =>
        /\ ret.delay > 0
        /\ ret.delay <= MS_PER_DAY
        /\ (now + ret.delay) % MS_PER_DAY
              = arg.hours * MS_PER_HOUR + arg.minutes * MS_PER_MINUTE

\* 17h00 asked at 17:00:00.000 exactly is answered with a whole day
C11_Witness ==
    /\ ValidTimeOfDay /\ ret.called
    /\ arg.hours = 17 /\ arg.minutes = 0
    /\ now = 17 * MS_PER_HOUR
    /\ ret.delay = MS_PER_DAY

\* what the '+' text stands for: the <hours>h<minutes> and every token
PlusTotal(a) ==
    a.lead.hours * MS_PER_HOUR + a.lead.minutes * MS_PER_MINUTE + TokensMs(a.tokens)

\* C12: for a '+' text the delay is the leading <hours>h<minutes> plus the
\* weighted sum of all the tokens, whatever the number of digits of their
\* integers (+<n>h is n hours for every n >= 1), and the parse fails only
\* when that total is not greater than zero
C12_PlusTotal ==
    (arg.kind = "plus" /\ ret.called) =>
        ret.delay = IF PlusTotal(arg) > 0 THEN PlusTotal(arg) ELSE NoDelay

\* C13: for a text without '+' made of <n>d, <n>h, <n>m, <n>s tokens, in
\* any order and with units repeated, the delay is the weighted sum of the
\* tokens; a text without any token is rejected
C13_RelativeSum ==
    ret.called =>
        /\ arg.kind = "relative" => ret.delay = TokensMs(arg.tokens)
        /\ arg.kind = "noToken" => ret.delay = NoDelay

\* minutes written before hours: 90m1h is two and a half hours
C13_Witness ==
    /\ ret.called /\ arg.kind = "relative"
    /\ arg.timeStr = <<"9", "0", "m", "1", "h">>
    /\ ret.delay = 90 * MS_PER_MINUTE + MS_PER_HOUR

\* C14: HhMM+<n>d without a leading '+' stands for the wall-clock time H:MM
\* n days from today, whatever the clock reads, and not for
\* now + H hours + n days
C14_TimeOfDayInDays ==
    (arg.kind = "dayOffset" /\ ret.called) =>
        /\ ret.delay # NoDelay
        /\ (now + ret.delay) % MS_PER_DAY
              = arg.hours * MS_PER_HOUR + arg.minutes * MS_PER_MINUTE
        /\ (now + ret.delay) \div MS_PER_DAY = (now \div MS_PER_DAY) + arg.days

\* C15: /schedule takes a clock time such as 3:30pm or 15:45: it does not
\* reject the text, and schedules for the next occurrence of that clock time
C15_ExactTimeAccepted ==
    (arg.kind = "exact" /\ ret.called) =>
        /\ ScheduleReply("a", arg.timeStr, ret.delay) = "scheduled"
        /\ ret.delay <= MS_PER_DAY
        /\ (now + ret.delay) % MS_PER_DAY
              = arg.hours * MS_PER_HOUR + arg.minutes * MS_PER_MINUTE

\* C16: a time of day HhMM with the hour above 23 or the minute above 59 is
\* rejected: the parser returns no delay and the command schedules nothing
C16_OutOfRangeRejected ==
    (arg.kind = "timeOfDay" /\ ~ValidTimeOfDay /\ ret.called) =>
        /\ ret.delay = NoDelay
        /\ ScheduleReply("a", arg.timeStr, ret.delay) = "invalid_time"

(***************************************************************************)
(* scheduleMessage's arithmetic run on its own, for delays of many days.   *)
(* The program's numbers are doubles, exact far beyond these values; here  *)
(* a count of milliseconds is written [days, ms] with ms below one day.    *)
(* setTimeout takes its delay as a signed 32-bit integer: the value is     *)
(* reduced modulo 2^32 into [-2^31, 2^31 - 1] and a negative result is     *)
(* taken as 0.                                                             *)
(***************************************************************************)
MaxInt32 == 2147483647

Wide(n) == [days |-> n \div MS_PER_DAY, ms |-> n % MS_PER_DAY]

WideAdd(a, b) ==
    [days |-> a.days + b.days + ((a.ms + b.ms) \div MS_PER_DAY),
     ms |-> (a.ms + b.ms) % MS_PER_DAY]

WideLess(a, b) == a.days < b.days \/ (a.days = b.days /\ a.ms < b.ms)

\* a + b as a signed 32-bit integer, for b >= 0
Int32Add(a, b) ==
    IF a > MaxInt32 - b THEN (a - MaxInt32 - 1) + (b - MaxInt32 - 1) ELSE a + b

\* the signed 32-bit integer that acc + days * MS_PER_DAY becomes
RECURSIVE Int32AddDays(_, _)
Int32AddDays(acc, days) ==
    IF days = 0 THEN acc ELSE Int32AddDays(Int32Add(acc, MS_PER_DAY), days - 1)

ToInt32(w) == Int32AddDays(w.ms, w.days)

\* the delay setTimeout(cb, w) waits
TimeoutDelay(w) == IF ToInt32(w) < 0 THEN 0 ELSE ToInt32(w)

MaxDelayDays == 30

\* delays of whole days plus one second, plus 20h31m23s, plus 20h31m24s:
\* with 24 days the last two are 2^31 - 648 and 2^31 + 352
TimerArgs ==
    {[kind |-> "timer", delay |-> [days |-> d, ms |-> r]]
        : d \in 0..MaxDelayDays,
          r \in {MS_PER_SECOND,
                 20 * MS_PER_HOUR + 31 * MS_PER_MINUTE + 23 * MS_PER_SECOND,
                 20 * MS_PER_HOUR + 31 * MS_PER_MINUTE + 24 * MS_PER_SECOND}}

InitTimer ==
    /\ Idle
    /\ now \in ParseClocks
    /\ arg \in TimerArgs
    /\ ret = NotCalled

\* scheduleMessage(channelId, content, delay): the recorded scheduledTime and
\* the instant the host runs the callback of setTimeout(cb, delay + 500)
ArmCall ==
    /\ arg.kind = "timer"
    /\ ret = NotCalled
    /\ ret' = [called |-> TRUE,
               scheduledTime |-> WideAdd(WideAdd(Wide(now), arg.delay), Wide(SEND_BUFFER_MS)),
               due |-> WideAdd(Wide(now),
                               Wide(TimeoutDelay(WideAdd(arg.delay, Wide(SEND_BUFFER_MS)))))]
    /\ UNCHANGED <<now, scheduledMessages, timers, nextTimeoutId, store, queue, pc,
                   started, sent, cancelled, crashes, rec, arg>>

NextTimer == ArmCall

SpecTimer == InitTimer /\ [][NextTimer]_vars

\* C17: for every delay, those of 2^31 ms and more included, the callback of
\* the timer runs no earlier than the scheduledTime stored in the record
C17_NotBeforeFireTime ==
    (arg.kind = "timer" /\ ret.called) => ~WideLess(ret.due, ret.scheduledTime)

====
